---- MODULE Spec2Model ----
(***************************************************************************)
(* A model of the SMS re-encoder (sms_message_encoder.py), the gateway and *)
(* the phone (sms_gateway_mock.py).                                        *)
(*                                                                         *)
(* A string is a sequence of integers: codepoints for the input text,      *)
(* 16-bit code units for everything the encoder emits.  A grapheme is a    *)
(* non-empty sequence of codepoints and a text is a sequence of graphemes  *)
(* (the segmentation of grapheme.graphemes is an input of the model).      *)
(* Python's None is the value None below; a raised exception is recorded   *)
(* by its type name.  Indices idx, start_idx and cursors are Python's      *)
(* 0-based indices, so element idx of a list is written list[idx + 1].     *)
(***************************************************************************)
EXTENDS Integers, Sequences, FiniteSets, TLC

\* ---------------------------------------------------------------- constants
BOM_BE == 65279
BOM_LE == 65534
REPLACEMENT_CHARACTER_BE == 65533
REPLACEMENT_CHARACTER_LE == 65023

UNSUPPORTED_CHARS ==
    {0, 8234, 8235, 8237, 8238, 8236, 8297, 8294, 8295, 8296, 8206, 8207, 1564}

\* page sizes: a page of a multi-page message, a single-page message, and the
\* gateway's page when it starts with a BOM
PAGE == 63
SINGLE_PAGE == 70
GATEWAY_BOM_PAGE == 67

\* the longest code-unit value the gateway transports
MAX_UCS2 == 65535

None == <<-1>>
NoException == "none"

Policies == {"replace", "ignore", "error", "pass"}

\* ------------------------------------------------------------ small helpers
Max(a, b) == IF a >= b THEN a ELSE b

\* s[from + 1 .. to] in Python's s[from:to]
Slice(s, from, to) ==
    LET hi == IF to > Len(s) THEN Len(s) ELSE to
    IN  IF from >= hi THEN <<>> ELSE [i \in 1..(hi - from) |-> s[from + i]]

\* ''.join(parts[lo..hi]), by halves (the order of the parts is kept)
RECURSIVE JoinRange(_, _, _)
JoinRange(parts, lo, hi) ==
    IF lo > hi THEN <<>>
    ELSE IF lo = hi THEN parts[lo]
    ELSE LET mid == (lo + hi) \div 2
         IN  JoinRange(parts, lo, mid) \o JoinRange(parts, mid + 1, hi)

\* ''.join(parts)
Join(parts) == JoinRange(parts, 1, Len(parts))

\* char * n
Repeat(char, n) == [i \in 1..n |-> char]

\* any(flags) for a list of booleans
AnyTrue(flags) == \E i \in 1..Len(flags) : flags[i]

\* -------------------------------------------------------- coerce_grapheme
\* chars.encode('utf-16-le') where the code says 'utf-16-be': the bytes of
\* every code unit in the other order
EncodeUtf16LE(chars) ==
    Join([i \in 1..Len(chars) |->
            LET c == chars[i]
                v == c - 65536
                hi == 55296 + (v \div 1024)
                lo == 56320 + (v % 1024)
            IN  IF c <= MAX_UCS2
                  THEN <<c % 256, c \div 256>>
                  ELSE <<hi % 256, hi \div 256, lo % 256, lo \div 256>>])

\* chars.encode('utf-16-be'): two bytes per code unit, a surrogate pair for a
\* codepoint above U+FFFF
EncodeUtf16BE(chars) ==
    Join([i \in 1..Len(chars) |->
            LET c == chars[i]
                v == c - 65536
                hi == 55296 + (v \div 1024)
                lo == 56320 + (v % 1024)
            IN  IF c <= MAX_UCS2
                  THEN <<c \div 256, c % 256>>
                  ELSE <<hi \div 256, hi % 256, lo \div 256, lo % 256>>])

\* struct.unpack(f'{endianness}{n_chars}H', grapheme_bytes_be) mapped through chr
StructUnpack(endianness, bytes) ==
    [i \in 1..(Len(bytes) \div 2) |->
        IF endianness = ">"
          THEN bytes[2 * i - 1] * 256 + bytes[2 * i]
          ELSE bytes[2 * i] * 256 + bytes[2 * i - 1]]

IsSurrogate(u) == u >= 55296 /\ u <= 57343

\* encoded.encode('utf8') succeeds: strict UTF-8 refuses surrogates
Utf8Encodable(encoded) == \A i \in 1..Len(encoded) : ~IsSurrogate(encoded[i])

\* unicodedata.normalize(form, chars), for the graphemes of the model: A +
\* COMBINING RING ABOVE and U WITH GRAVE have a canonical (de)composition,
\* TORTOISE SHELL BRACKETED LATIN CAPITAL LETTER S (U+1F12A) has a
\* compatibility decomposition into three characters of the BMP
Normalize(form, chars) ==
    IF form \in {"NFC", "NFKC"} /\ chars = <<65, 778>> THEN <<197>>
    ELSE IF form \in {"NFD", "NFKD"} /\ chars = <<197>> THEN <<65, 778>>
    ELSE IF form \in {"NFC", "NFKC"} /\ chars = <<85, 768>> THEN <<217>>
    ELSE IF form \in {"NFD", "NFKD"} /\ chars = <<217>> THEN <<85, 768>>
    ELSE IF form \in {"NFKC", "NFKD"} /\ chars = <<127274>>
      THEN <<12308, 83, 12309>>
    ELSE chars

InSeq(x, s) == \E i \in 1..Len(s) : s[i] = x

\* the loop over the normalization forms: original first, no duplicates
RECURSIVE NormalizedFrom(_, _, _)
NormalizedFrom(chars, forms, normalized_chars) ==
    IF forms = <<>> THEN normalized_chars
    ELSE LET _chars == Normalize(Head(forms), chars)
         IN  NormalizedFrom(chars, Tail(forms),
                 IF _chars # chars /\ ~InSeq(_chars, normalized_chars)
                   THEN Append(normalized_chars, _chars)
                   ELSE normalized_chars)

NormalizedChars(chars) ==
    NormalizedFrom(chars, <<"NFC", "NFKC", "NFD", "NFKD">>, <<chars>>)

\* sorted(..., key=len): a stable insertion sort by length
RECURSIVE InsertByLen(_, _)
InsertByLen(x, sorted) ==
    IF sorted = <<>> THEN <<x>>
    ELSE IF Len(x) < Len(Head(sorted)) THEN <<x>> \o sorted
    ELSE <<Head(sorted)>> \o InsertByLen(x, Tail(sorted))

\* the candidates left in the order of normalized_chars, unsorted
Unsorted(s) == s

RECURSIVE SortedByLen(_)
SortedByLen(s) ==
    IF s = <<>> THEN <<>>
    ELSE InsertByLen(s[Len(s)], SortedByLen(SubSeq(s, 1, Len(s) - 1)))

AllGraphemeBytesBE(chars) ==
    LET normalized_chars == NormalizedChars(chars)
    IN  SortedByLen([i \in 1..Len(normalized_chars) |->
                        EncodeUtf16BE(normalized_chars[i])])

\* decode_ucs2 without its try/except around encoded.encode('utf8'): the
\* first candidate, surrogates or not
decode_ucs2_unchecked(endianness, all_grapheme_bytes_be) ==
    IF all_grapheme_bytes_be = <<>> THEN None
    ELSE StructUnpack(endianness, Head(all_grapheme_bytes_be))

\* decode_ucs2: the first candidate that survives a strict UTF-8 encode
RECURSIVE decode_ucs2(_, _)
decode_ucs2(endianness, all_grapheme_bytes_be) ==
    IF all_grapheme_bytes_be = <<>> THEN None
    ELSE LET encoded == StructUnpack(endianness, Head(all_grapheme_bytes_be))
         IN  IF Utf8Encodable(encoded) THEN encoded
             ELSE decode_ucs2(endianness, Tail(all_grapheme_bytes_be))

\* the length test with > where lines 142 and 144 have >=
TooLongAbovePage(encoded) == encoded # None /\ Len(encoded) > PAGE

\* "don't allow encodings that are too long"
TooLong(encoded) == encoded # None /\ Len(encoded) >= PAGE

HasUnsupported(chars) == \E i \in 1..Len(chars) : chars[i] \in UNSUPPORTED_CHARS

\* coerce_grapheme without the branch of 'ignore': the unsupported grapheme
\* goes on to be encoded, as it does under 'pass'
coerce_grapheme_without_ignore(chars, handle_unsupported) ==
    IF HasUnsupported(chars) /\ handle_unsupported = "replace"
      THEN <<(<<REPLACEMENT_CHARACTER_BE>>), (<<REPLACEMENT_CHARACTER_LE>>)>>
    ELSE IF HasUnsupported(chars) /\ handle_unsupported = "error"
      THEN <<None, None>>
    ELSE LET all_grapheme_bytes_be == AllGraphemeBytesBE(chars)
             decoded_be == decode_ucs2(">", all_grapheme_bytes_be)
             decoded_le == decode_ucs2("<", all_grapheme_bytes_be)
             encoded_be == IF TooLong(decoded_be) THEN None ELSE decoded_be
             encoded_le == IF TooLong(decoded_le) THEN None ELSE decoded_le
         IN  IF encoded_be = None /\ encoded_le = None
               THEN <<(<<REPLACEMENT_CHARACTER_BE>>), (<<REPLACEMENT_CHARACTER_LE>>)>>
               ELSE <<encoded_be, encoded_le>>

\* coerce_grapheme without lines 148-151: a grapheme that neither
\* endianness encodes is returned as it is, None on both sides
coerce_grapheme_without_substitution(chars, handle_unsupported) ==
    IF HasUnsupported(chars) /\ handle_unsupported = "replace"
      THEN <<(<<REPLACEMENT_CHARACTER_BE>>), (<<REPLACEMENT_CHARACTER_LE>>)>>
    ELSE IF HasUnsupported(chars) /\ handle_unsupported = "ignore"
      THEN <<(<<>>), (<<>>)>>
    ELSE IF HasUnsupported(chars) /\ handle_unsupported = "error"
      THEN <<None, None>>
    ELSE LET all_grapheme_bytes_be == AllGraphemeBytesBE(chars)
             decoded_be == decode_ucs2(">", all_grapheme_bytes_be)
             decoded_le == decode_ucs2("<", all_grapheme_bytes_be)
         IN  <<IF TooLong(decoded_be) THEN None ELSE decoded_be,
               IF TooLong(decoded_le) THEN None ELSE decoded_le>>

\* coerce_grapheme(chars, handle_unsupported): <<encoded_be, encoded_le>>
coerce_grapheme(chars, handle_unsupported) ==
    IF HasUnsupported(chars) /\ handle_unsupported = "replace"
      THEN <<(<<REPLACEMENT_CHARACTER_BE>>), (<<REPLACEMENT_CHARACTER_LE>>)>>
    ELSE IF HasUnsupported(chars) /\ handle_unsupported = "ignore"
      THEN <<(<<>>), (<<>>)>>
    ELSE IF HasUnsupported(chars) /\ handle_unsupported = "error"
      THEN <<None, None>>
    ELSE LET all_grapheme_bytes_be == AllGraphemeBytesBE(chars)
             decoded_be == decode_ucs2(">", all_grapheme_bytes_be)
             decoded_le == decode_ucs2("<", all_grapheme_bytes_be)
             encoded_be == IF TooLong(decoded_be) THEN None ELSE decoded_be
             encoded_le == IF TooLong(decoded_le) THEN None ELSE decoded_le
         IN  IF encoded_be = None /\ encoded_le = None
               THEN <<(<<REPLACEMENT_CHARACTER_BE>>), (<<REPLACEMENT_CHARACTER_LE>>)>>
               ELSE <<encoded_be, encoded_le>>

\* ------------------------------------------------------------ coerce_text
\* lines 242-246: the two sides of every grapheme, the error flags (a side
\* that is None) and the sides with None replaced by the replacement character
Coerce(_graphemes, handle_unsupported) ==
    LET sides == [i \in 1..Len(_graphemes) |->
                     coerce_grapheme(_graphemes[i], handle_unsupported)]
    IN  [n            |-> Len(_graphemes),
         errors_be    |-> [i \in 1..Len(sides) |-> sides[i][1] = None],
         errors_le    |-> [i \in 1..Len(sides) |-> sides[i][2] = None],
         graphemes_be |-> [i \in 1..Len(sides) |->
                              IF sides[i][1] = None
                                THEN <<REPLACEMENT_CHARACTER_BE>> ELSE sides[i][1]],
         graphemes_le |-> [i \in 1..Len(sides) |->
                              IF sides[i][2] = None
                                THEN <<REPLACEMENT_CHARACTER_LE>> ELSE sides[i][2]]]

\* lines 249-257: the single big-endian page, prefixed with U+FEFF when it
\* starts with either BOM (the caller has checked that the join is not empty)
SinglePageBEUnprefixed(graphemes_be) == Join(graphemes_be)

SinglePageBE(graphemes_be) ==
    LET joined == Join(graphemes_be)
    IN  IF joined[1] = BOM_LE THEN <<BOM_BE>> \o joined
        ELSE IF joined[1] = BOM_BE THEN <<BOM_BE>> \o joined
        ELSE joined

SinglePageLE(graphemes_le) == <<BOM_LE>> \o Join(graphemes_le)

\* int(single_page_be.startswith(BOM_BE + BOM_LE))
StartLengthBE(single_page_be) ==
    IF Len(single_page_be) >= 2 /\ single_page_be[1] = BOM_BE
                                /\ single_page_be[2] = BOM_LE
      THEN 1 ELSE 0

\* lines 262-267: the body of the error-counting loop for fragment i; st is
\* (message_length, single_page_error)
SinglePageErrorStep(errors, fragments, i, st, multiplier) ==
    IF st.message_length + Len(fragments[i]) > SINGLE_PAGE
      THEN [st EXCEPT !.error = @ + Len(fragments[i]) * multiplier]
      ELSE [message_length |-> st.message_length + Len(fragments[i]),
            error |-> st.error + (IF errors[i] THEN 1 ELSE 0)]

\* the loop over fragments lo..hi, in order, by halves (the test of st makes
\* TLC evaluate the left half before it starts the right half)
RECURSIVE SinglePageErrorRange(_, _, _, _, _, _)
SinglePageErrorRange(errors, fragments, lo, hi, st, multiplier) ==
    IF lo > hi \/ st.message_length > SINGLE_PAGE THEN st
    ELSE IF lo = hi THEN SinglePageErrorStep(errors, fragments, lo, st, multiplier)
    ELSE LET mid == (lo + hi) \div 2
         IN  SinglePageErrorRange(errors, fragments, mid + 1, hi,
                 SinglePageErrorRange(errors, fragments, lo, mid, st, multiplier),
                 multiplier)

\* lines 260-277: the loss of a single page
SinglePageError(errors, fragments, message_length, multiplier) ==
    SinglePageErrorRange(errors, fragments, 1, Len(fragments),
        [message_length |-> message_length, error |-> 0], multiplier).error

\* lines 248-286: both single pages, their losses, and the fast exit
SinglePages(c, multiplier) ==
    IF Join(c.graphemes_be) = <<>>
      THEN [exc |-> "IndexError"]
      ELSE LET single_page_be == SinglePageBE(c.graphemes_be)
               single_page_le == SinglePageLE(c.graphemes_le)
           IN  [exc |-> NoException,
                single_page_be |-> single_page_be,
                single_page_le |-> single_page_le,
                single_page_error_be |->
                    SinglePageError(c.errors_be, c.graphemes_be,
                                    StartLengthBE(single_page_be), multiplier),
                single_page_error_le |->
                    SinglePageError(c.errors_le, c.graphemes_le, 1, multiplier),
                fast |->
                    IF ~AnyTrue(c.errors_be) /\ Len(single_page_be) <= SINGLE_PAGE
                      THEN "BE"
                    ELSE IF ~AnyTrue(c.errors_le) /\ Len(single_page_le) <= SINGLE_PAGE
                      THEN "LE"
                    ELSE "no"]

\* a beam state (idx, n_errors, pages); trail records, for every page, the
\* loop that built it and the index of its first grapheme (it is not data of
\* the program and nothing in the program reads it)
State(idx, n_errors, pages, trail) ==
    [idx |-> idx, n_errors |-> n_errors, pages |-> pages, trail |-> trail]

Built(kind, start_idx) == [kind |-> kind, start_idx |-> start_idx]

InitialStates == <<State(0, 0, <<>>, <<>>)>>

\* lines 293-302: append, as the list of states it adds to new_states
\* append that records the new page alone, without [*_pages, ...]
appendOnlyPage(_idx, _n_errors, s, _page, kind) ==
    LET page_text == Join(_page)
        added == <<State(_idx, _n_errors, <<page_text>>,
                         Append(s.trail, Built(kind, s.idx)))>>
    IN  IF page_text # <<>> /\ page_text[1] \in {BOM_BE, BOM_LE}
          THEN IF Len(page_text) > 1 THEN added ELSE <<>>
        ELSE IF Len(page_text) > 0 THEN added
        ELSE <<>>

append(_idx, _n_errors, s, _page, kind) ==
    LET page_text == Join(_page)
        added == <<State(_idx, _n_errors, Append(s.pages, page_text),
                         Append(s.trail, Built(kind, s.idx)))>>
    IN  IF page_text # <<>> /\ page_text[1] \in {BOM_BE, BOM_LE}
          THEN IF Len(page_text) > 1 THEN added ELSE <<>>
        ELSE IF Len(page_text) > 0 THEN added
        ELSE <<>>

\* the local variables of a page-building loop: n_errors, page, total_len,
\* what it has added to new_states, the exception it raised, and whether it
\* has left the loop (break)
LoopStart(n_errors, page, total_len) ==
    [n_errors |-> n_errors, page |-> page, total_len |-> total_len,
     new |-> <<>>, exc |-> NoException, done |-> FALSE]

\* the body of the big-endian loop without lines 314-319: a page is never
\* prefixed with U+FEFF
BEStepWithoutPrefix(c, s, idx, st) ==
    LET error == c.errors_be[idx + 1]
        saved == IF error
                   THEN append(idx, st.n_errors, s, st.page, "BE")
                   ELSE <<>>
        n_errors == IF error THEN st.n_errors + 1 ELSE st.n_errors
        fragment == c.graphemes_be[idx + 1]
    IN  IF Len(st.page) = 0 /\ fragment = <<>>
          THEN [st EXCEPT !.exc = "IndexError", !.done = TRUE]
        ELSE
          LET page == Append(st.page, fragment)
              total_len == st.total_len + Len(fragment)
              flush == append(idx + 1, n_errors, s, page, "BE")
              leave == \/ idx + 1 >= Len(c.graphemes_be)
                       \/ Len(c.graphemes_be[idx + 2]) + total_len > PAGE
          IN  [n_errors |-> n_errors, page |-> page, total_len |-> total_len,
               new |-> st.new \o saved \o (IF leave THEN flush ELSE <<>>),
               exc |-> NoException, done |-> leave]

\* lines 309-331: the body of the big-endian loop at idx
BEStep(c, s, idx, st) ==
    LET error == c.errors_be[idx + 1]
        saved == IF error
                   THEN append(idx, st.n_errors, s, st.page, "BE")
                   ELSE <<>>
        n_errors == IF error THEN st.n_errors + 1 ELSE st.n_errors
        fragment == c.graphemes_be[idx + 1]
    IN  IF Len(st.page) = 0 /\ fragment = <<>>
          THEN [st EXCEPT !.exc = "IndexError", !.done = TRUE]
        ELSE
          LET prefixed == Len(st.page) = 0 /\ fragment[1] \in {BOM_LE, BOM_BE}
              page == Append(st.page, IF prefixed THEN <<BOM_BE>> \o fragment
                                                  ELSE fragment)
              total_len == st.total_len + Len(fragment)
                           + (IF prefixed THEN 1 ELSE 0)
              flush == append(idx + 1, n_errors, s, page, "BE")
              leave == \/ idx + 1 >= Len(c.graphemes_be)
                       \/ Len(c.graphemes_be[idx + 2]) + total_len > PAGE
          IN  [n_errors |-> n_errors, page |-> page, total_len |-> total_len,
               new |-> st.new \o saved \o (IF leave THEN flush ELSE <<>>),
               exc |-> NoException, done |-> leave]

\* the big-endian loop over idx in lo..hi, in order, by halves; nothing runs
\* after a break or an exception
RECURSIVE BERange(_, _, _, _, _)
BERange(c, s, lo, hi, st) ==
    IF st.done \/ lo > hi THEN st
    ELSE IF lo = hi THEN BEStep(c, s, lo, st)
    ELSE LET mid == (lo + hi) \div 2
         IN  BERange(c, s, mid + 1, hi, BERange(c, s, lo, mid, st))

\* lines 305-335: the big-endian extension of one state; at the end of the
\* text the page [] is falsy and nothing is added
BEExtension(c, s) ==
    IF s.idx >= c.n
      THEN LoopStart(s.n_errors, <<>>, 0)
      ELSE BERange(c, s, s.idx, c.n - 1, LoopStart(s.n_errors, <<>>, 0))

\* the body of the little-endian loop without line 345: an encoding error
\* is saved before but not counted
LEStepUncounted(c, s, idx, st) ==
    LET error == c.errors_le[idx + 1]
        saved == IF error
                   THEN append(idx, st.n_errors, s, st.page, "LE")
                   ELSE <<>>
        page == Append(st.page, c.graphemes_le[idx + 1])
        total_len == st.total_len + Len(c.graphemes_le[idx + 1])
        flush == append(idx + 1, st.n_errors, s, page, "LE")
        leave == \/ idx + 1 >= Len(c.graphemes_le)
                 \/ Len(c.graphemes_le[idx + 2]) + total_len > PAGE
    IN  [n_errors |-> st.n_errors, page |-> page, total_len |-> total_len,
         new |-> st.new \o saved \o (IF leave THEN flush ELSE <<>>),
         exc |-> NoException, done |-> leave]

\* lines 342-359: the body of the little-endian loop at idx
LEStep(c, s, idx, st) ==
    LET error == c.errors_le[idx + 1]
        saved == IF error
                   THEN append(idx, st.n_errors, s, st.page, "LE")
                   ELSE <<>>
        n_errors == IF error THEN st.n_errors + 1 ELSE st.n_errors
        page == Append(st.page, c.graphemes_le[idx + 1])
        total_len == st.total_len + Len(c.graphemes_le[idx + 1])
        flush == append(idx + 1, n_errors, s, page, "LE")
        leave == \/ idx + 1 >= Len(c.graphemes_le)
                 \/ Len(c.graphemes_le[idx + 2]) + total_len > PAGE
    IN  [n_errors |-> n_errors, page |-> page, total_len |-> total_len,
         new |-> st.new \o saved \o (IF leave THEN flush ELSE <<>>),
         exc |-> NoException, done |-> leave]

RECURSIVE LERange(_, _, _, _, _)
LERange(c, s, lo, hi, st) ==
    IF st.done \/ lo > hi THEN st
    ELSE IF lo = hi THEN LEStep(c, s, lo, st)
    ELSE LET mid == (lo + hi) \div 2
         IN  LERange(c, s, mid + 1, hi, LERange(c, s, lo, mid, st))

\* lines 338-363: the little-endian extension of one state; at the end of the
\* text the page [BOM_LE] is truthy and the state is added as it is
LEExtension(c, s) ==
    IF s.idx >= c.n
      THEN [LoopStart(s.n_errors, <<(<<BOM_LE>>)>>, 1) EXCEPT
               !.new = <<State(s.idx, s.n_errors, s.pages, s.trail)>>]
      ELSE LERange(c, s, s.idx, c.n - 1,
                   LoopStart(s.n_errors, <<(<<BOM_LE>>)>>, 1))

\* lines 304-363: new_states of one iteration, all big-endian extensions
\* first, then all little-endian ones; an exception of a big-endian loop
\* ends the call
NewStates(c, states) ==
    LET be == [k \in 1..Len(states) |-> BEExtension(c, states[k])]
        le == [k \in 1..Len(states) |-> LEExtension(c, states[k])]
        raised == {k \in 1..Len(states) : be[k].exc # NoException}
    IN  IF raised # {}
          THEN [new |-> <<>>, exc |-> be[CHOOSE k \in raised : TRUE].exc]
          ELSE [new |-> Join([k \in 1..Len(states) |-> be[k].new])
                        \o Join([k \in 1..Len(states) |-> le[k].new]),
                exc |-> NoException]

\* the runs of the loop of lines 305-335 up to and including the first one
\* that raises
LoopsUntilRaise(c, states) ==
    CHOOSE k \in 1..Len(states) :
        /\ BEExtension(c, states[k]).exc # NoException
        /\ \A j \in 1..(k - 1) : BEExtension(c, states[j]).exc = NoException

\* best_new_states.get(n_errors, (0, 0, []))[0], best being the dict's values
\* in insertion order
BestIdx(best, n_errors) ==
    IF \E k \in 1..Len(best) : best[k].n_errors = n_errors
      THEN (CHOOSE k \in 1..Len(best) : best[k].n_errors = n_errors)
      ELSE 0

\* the pruning step with >= where line 370 has >: on a tie of start_idx
\* the later state replaces the earlier one
PruneStepLastOnTie(best, s) ==
    LET k == BestIdx(best, s.n_errors)
        old_idx == IF k = 0 THEN 0 ELSE best[k].idx
    IN  IF s.idx >= old_idx
          THEN IF k = 0 THEN Append(best, s) ELSE [best EXCEPT ![k] = s]
          ELSE best

\* the pruning step without the comparison of line 370: the first state
\* generated with an error count is kept
PruneStepFirstSeen(best, s) ==
    IF BestIdx(best, s.n_errors) = 0 THEN Append(best, s) ELSE best

\* the pruning step that keeps every state
PruneStepKeepAll(best, s) == Append(best, s)

\* lines 368-371: one step of the pruning loop
PruneStep(best, s) ==
    LET k == BestIdx(best, s.n_errors)
        old_idx == IF k = 0 THEN 0 ELSE best[k].idx
    IN  IF s.idx > old_idx
          THEN IF k = 0 THEN Append(best, s) ELSE [best EXCEPT ![k] = s]
          ELSE best

\* the pruning loop over new_states[lo..hi], in order, by halves (the test of
\* best makes TLC evaluate the left half before it starts the right half)
RECURSIVE PruneRange(_, _, _, _)
PruneRange(best, new_states, lo, hi) ==
    IF lo > hi \/ Len(best) > Len(new_states) THEN best
    ELSE IF lo = hi THEN PruneStep(best, new_states[lo])
    ELSE LET mid == (lo + hi) \div 2
         IN  PruneRange(PruneRange(best, new_states, lo, mid),
                        new_states, mid + 1, hi)

\* lines 367-374: list(best_new_states.values())
Prune(new_states) == PruneRange(<<>>, new_states, 1, Len(new_states))

\* line 378: all(start_idx >= len(_graphemes) ...)
AllAtEnd(c, states) == \A k \in 1..Len(states) : states[k].idx >= c.n

\* lines 382-387: the candidates of the final selection, beam states first;
\* from, idx and trail record where a candidate comes from (nothing reads them)
Candidates(c, states, sp, multiplier) ==
    [k \in 1..Len(states) |->
        [loss  |-> states[k].n_errors
                   + Max(0, c.n - states[k].idx) * multiplier,
         pages |-> states[k].pages,
         from  |-> "beam", idx |-> states[k].idx, trail |-> states[k].trail]]
    \o <<[loss |-> sp.single_page_error_be,
          pages |-> <<sp.single_page_be>>,
          from  |-> "single", idx |-> c.n, trail |-> <<Built("BE", 0)>>],
         [loss |-> sp.single_page_error_le,
          pages |-> <<sp.single_page_le>>,
          from  |-> "single", idx |-> c.n, trail |-> <<Built("LE", 0)>>]>>

\* the key with its first two components in the other order: the number of
\* pages before the loss
KeyPagesFirst(x) == <<Len(x.pages), x.loss, Len(x.pages[Len(x.pages)])>>

\* the key with the longest last page first among equals
KeyLongestLastPage(x) == <<x.loss, Len(x.pages), 0 - Len(x.pages[Len(x.pages)])>>

\* the key of line 392: (x[0], len(x[1]), len(x[1][-1]))
Key(x) == <<x.loss, Len(x.pages), Len(x.pages[Len(x.pages)])>>

KeyLess(a, b) ==
    \/ a[1] < b[1]
    \/ a[1] = b[1] /\ a[2] < b[2]
    \/ a[1] = b[1] /\ a[2] = b[2] /\ a[3] < b[3]

\* min(errors_and_pages, key=...): the first candidate with the least key
MinByKey(errors_and_pages) ==
    LET least == {k \in 1..Len(errors_and_pages) :
                    \A j \in 1..Len(errors_and_pages) :
                        ~KeyLess(Key(errors_and_pages[j]), Key(errors_and_pages[k]))}
    IN  errors_and_pages[CHOOSE k \in least : \A j \in least : k <= j]

\* line 392, with the IndexError of x[1][-1] on a candidate without pages
Select(errors_and_pages) ==
    IF \E k \in 1..Len(errors_and_pages) : errors_and_pages[k].pages = <<>>
      THEN [exc |-> "IndexError"]
      ELSE [exc |-> NoException,
            best |-> MinByKey(errors_and_pages)]

\* right_pad_page (the caller has checked its assertion)
right_pad_page(text, char) == text \o Repeat(char, PAGE - Len(text))

PadPageBigEndian(best_page) == right_pad_page(best_page, BOM_BE)

\* lines 396-402 for one page
PadPage(best_page) ==
    IF best_page[1] = BOM_LE THEN right_pad_page(best_page, BOM_LE)
    ELSE right_pad_page(best_page, BOM_BE)

\* lines 395-405: the padded pages, or the exception of the first page that
\* is empty or longer than a page
Assemble(best_pages) ==
    LET m == Len(best_pages)
        bad == {k \in 1..(m - 1) : best_pages[k] = <<>> \/ Len(best_pages[k]) > PAGE}
        first == CHOOSE k \in bad : \A j \in bad : k <= j
    IN  IF bad # {}
          THEN [exc |-> IF best_pages[first] = <<>>
                          THEN "RuntimeError" ELSE "AssertionError"]
          ELSE [exc |-> NoException,
                out_pages |-> [k \in 1..m |-> IF k < m THEN PadPage(best_pages[k])
                                                       ELSE best_pages[k]]]

\* lines 289-379 as one loop: the states the beam ends with
RECURSIVE BeamLoop(_, _, _, _)
BeamLoop(c, states, _page_idx, max_pages) ==
    IF _page_idx >= max_pages THEN [states |-> states, exc |-> NoException]
    ELSE LET new == NewStates(c, states)
             pruned == Prune(new.new)
         IN  IF new.exc # NoException THEN [states |-> <<>>, exc |-> new.exc]
             ELSE IF AllAtEnd(c, pruned)
               THEN [states |-> pruned, exc |-> NoException]
             ELSE BeamLoop(c, pruned, _page_idx + 1, max_pages)

\* what coerce_text returns: the string, the pages it is made of, and the
\* selected candidate (loss 0 on the fast exits)
Returned(out_pages, best) ==
    [exc |-> NoException, out |-> Join(out_pages), out_pages |-> out_pages,
     min_error |-> best.loss, best |-> best]

FastCandidate(page, kind, n) ==
    [loss |-> 0, pages |-> <<page>>, from |-> "fast", idx |-> n,
     trail |-> <<Built(kind, 0)>>]

Raised(exc) == [exc |-> exc]

\* lines 381-405: the selection and the assembly
SelectAndAssemble(c, states, sp, multiplier) ==
    LET sel == Select(Candidates(c, states, sp, multiplier))
        asm == Assemble(sel.best.pages)
    IN  IF sel.exc # NoException THEN Raised(sel.exc)
        ELSE IF asm.exc # NoException THEN Raised(asm.exc)
        ELSE Returned(asm.out_pages, sel.best)

\* coerce_text as a function of its arguments: the exception it raises or
\* what it returns
coerce_text(_graphemes, max_pages, multiplier, handle_unsupported) ==
    IF _graphemes = <<>> THEN Raised("ValueError")
    ELSE
      LET c == Coerce(_graphemes, handle_unsupported)
          sp == SinglePages(c, multiplier)
          beam == BeamLoop(c, InitialStates, 0, max_pages)
      IN  IF sp.exc # NoException THEN Raised(sp.exc)
          ELSE IF sp.fast = "BE"
            THEN Returned(<<sp.single_page_be>>,
                          FastCandidate(sp.single_page_be, "BE", c.n))
          ELSE IF sp.fast = "LE"
            THEN Returned(<<sp.single_page_le>>,
                          FastCandidate(sp.single_page_le, "LE", c.n))
          ELSE IF beam.exc # NoException THEN Raised(beam.exc)
          ELSE SelectAndAssemble(c, beam.states, sp, multiplier)

\* ------------------------------------------------- gateway and phone models
\* the UTF-8 bytes of one character (the caller has refused surrogates)
Utf8EncodeChar(cp) ==
    IF cp < 128 THEN <<cp>>
    ELSE IF cp < 2048 THEN <<192 + (cp \div 64), 128 + (cp % 64)>>
    ELSE IF cp <= MAX_UCS2
      THEN <<224 + (cp \div 4096), 128 + ((cp \div 64) % 64), 128 + (cp % 64)>>
    ELSE <<240 + (cp \div 262144), 128 + ((cp \div 4096) % 64),
           128 + ((cp \div 64) % 64), 128 + (cp % 64)>>

\* urllib.parse.quote(text): the percent-escaped UTF-8 bytes, kept as one
\* group of bytes per character; a surrogate cannot be encoded
quote(text) ==
    IF \E i \in 1..Len(text) : IsSurrogate(text[i])
      THEN [exc |-> "UnicodeEncodeError"]
      ELSE [exc |-> NoException,
            query |-> [i \in 1..Len(text) |-> Utf8EncodeChar(text[i])]]

\* the character a group of UTF-8 bytes decodes to, U+FFFD when it is not
\* the shortest encoding of a character that is not a surrogate
Utf8DecodeChar(bytes) ==
    LET cp == IF Len(bytes) = 1 THEN bytes[1]
              ELSE IF Len(bytes) = 2 THEN (bytes[1] - 192) * 64 + (bytes[2] - 128)
              ELSE IF Len(bytes) = 3
                THEN (bytes[1] - 224) * 4096 + (bytes[2] - 128) * 64 + (bytes[3] - 128)
              ELSE (bytes[1] - 240) * 262144 + (bytes[2] - 128) * 4096
                   + (bytes[3] - 128) * 64 + (bytes[4] - 128)
    IN  IF Utf8EncodeChar(cp) = bytes /\ ~IsSurrogate(cp) THEN cp ELSE 65533

\* unquote(url_encoded_query_parameter, encoding='utf-8', errors='replace')
unquote(query) == [i \in 1..Len(query) |-> Utf8DecodeChar(query[i])]

\* step (3): characters above U+FFFF become U+FFFD
ReplacedText(text) ==
    [i \in 1..Len(text) |-> IF text[i] <= MAX_UCS2 THEN text[i] ELSE 65533]

\* step (4), the while loop: a page that starts with a BOM takes 67 characters
RECURSIVE GatewaySplit(_, _)
GatewaySplit(replaced_text, cursor) ==
    IF cursor >= Len(replaced_text) THEN <<>>
    ELSE IF replaced_text[cursor + 1] = BOM_BE \/ replaced_text[cursor + 1] = BOM_LE
      THEN <<Slice(replaced_text, cursor, cursor + GATEWAY_BOM_PAGE)>>
           \o GatewaySplit(replaced_text, cursor + GATEWAY_BOM_PAGE)
      ELSE <<Slice(replaced_text, cursor, cursor + PAGE)>>
           \o GatewaySplit(replaced_text, cursor + PAGE)

\* step (4), the variant left in the comments: every page takes 63 characters
RECURSIVE GatewaySplit63(_, _)
GatewaySplit63(replaced_text, cursor) ==
    IF cursor >= Len(replaced_text) THEN <<>>
    ELSE <<Slice(replaced_text, cursor, cursor + PAGE)>>
         \o GatewaySplit63(replaced_text, cursor + PAGE)

GatewayPages(replaced_text) ==
    IF Len(replaced_text) > SINGLE_PAGE THEN GatewaySplit(replaced_text, 0)
    ELSE <<replaced_text>>

GatewayPages63(replaced_text) ==
    IF Len(replaced_text) > SINGLE_PAGE THEN GatewaySplit63(replaced_text, 0)
    ELSE <<replaced_text>>

\* step (5): struct.pack(f'>{len(page)}H', ...)
StructPackBE(page) ==
    [i \in 1..(2 * Len(page)) |->
        IF i % 2 = 1 THEN page[(i + 1) \div 2] \div 256 ELSE page[i \div 2] % 256]

\* sms_api_endpoint: the pages it sends, or the assertion that fails
sms_api_endpoint(url_encoded_query_parameter) ==
    LET text == unquote(url_encoded_query_parameter)
        pages == GatewayPages(ReplacedText(text))
    IN  IF Len(text) = 0 \/ (\E i \in 1..Len(text) : text[i] = 0)
          THEN [exc |-> "AssertionError"]
          ELSE [exc |-> NoException,
                pages |-> pages,
                encoded_pages |-> [k \in 1..Len(pages) |-> StructPackBE(pages[k])]]

IsHigh(u) == u >= 55296 /\ u <= 56319
IsLow(u) == u >= 56320 /\ u <= 57343

\* bytes.decode('utf-16-be' / 'utf-16-le'), strict: a surrogate pair is one
\* character, a surrogate without its partner is an error
Utf16Decode(endianness, bytes) ==
    LET units == StructUnpack(endianness, bytes)
        n == Len(units)
        lone == {i \in 1..n :
                   \/ IsHigh(units[i]) /\ (i = n \/ ~IsLow(units[i + 1]))
                   \/ IsLow(units[i]) /\ (i = 1 \/ ~IsHigh(units[i - 1]))}
    IN  IF lone # {} \/ Len(bytes) % 2 = 1
          THEN [exc |-> "UnicodeDecodeError"]
          ELSE [exc |-> NoException,
                text |-> Join([i \in 1..n |->
                    IF IsHigh(units[i])
                      THEN <<65536 + (units[i] - 55296) * 1024 + (units[i + 1] - 56320)>>
                    ELSE IF IsLow(units[i]) THEN <<>>
                    ELSE <<units[i]>>])]

\* page.rstrip(BOM_BE)
Rstrip(text) ==
    LET kept == {i \in 1..Len(text) : text[i] # BOM_BE}
    IN  IF kept = {} THEN <<>>
        ELSE SubSeq(text, 1, CHOOSE i \in kept : \A j \in kept : j <= i)

\* step (2) of mobile_phone_render for one page
DecodePage(page) ==
    IF Len(page) >= 2 /\ page[1] = 254 /\ page[2] = 255
      THEN Utf16Decode(">", Slice(page, 2, Len(page)))
    ELSE IF Len(page) >= 2 /\ page[1] = 255 /\ page[2] = 254
      THEN Utf16Decode("<", Slice(page, 2, Len(page)))
    ELSE Utf16Decode(">", page)

\* mobile_phone_render(*pages, rstrip=True)
mobile_phone_render(pages) ==
    LET decoded_pages == [k \in 1..Len(pages) |-> DecodePage(pages[k])]
    IN  IF \E k \in 1..Len(pages) : decoded_pages[k].exc # NoException
          THEN [exc |-> "UnicodeDecodeError"]
          ELSE [exc |-> NoException,
                text |-> Join([k \in 1..Len(pages) |-> Rstrip(decoded_pages[k].text)])]

\* ------------------------------------------------------------------ inputs
\* bounds of the model: runs per text, max_pages, truncated_text_error_multiplier
MaxRuns == 2
MaxPages == 2
MaxMultiplier == 1

\* the graphemes texts are made of
LATIN_A == <<97>>
CRLF == <<13, 10>>
O_STROKE == <<216>>
PILE_OF_POO == <<128169>>
BOOKS == <<128218>>
ZWNBSP == <<BOM_BE>>
NONCHAR_FFFE == <<BOM_LE>>
NUL == <<0>>
A_RING_DECOMPOSED == <<65, 778>>
U_GRAVE == <<217>>
BRACKETED_S == <<127274>>
\* HEAVY CHECK MARK and 61 or 62 VARIATION SELECTOR-16: the longest grapheme
\* that fits a side, and the shortest that does not
LONGEST_GRAPHEME == <<10004>> \o Repeat(65039, PAGE - 2)
TOO_LONG_GRAPHEME == <<10004>> \o Repeat(65039, PAGE - 1)

\* a run is a grapheme and the number of times it is repeated: every grapheme
\* once, and two long runs of printable ASCII (71 letters are more than a
\* single page, 31 CR LF pairs leave one code unit of a page unused)
Runs ==
    {<<g, 1>> : g \in {LATIN_A, O_STROKE, PILE_OF_POO, BOOKS, ZWNBSP,
                       NONCHAR_FFFE, NUL}}
    \cup {<<LATIN_A, 71>>, <<CRLF, 31>>}

RECURSIVE RunTexts(_, _)
RunTexts(runs, k) ==
    IF k = 0 THEN {<<>>}
    ELSE {t \o Repeat(r[1], r[2]) : t \in RunTexts(runs, k - 1), r \in runs}

\* the texts: the graphemes of at most MaxRuns runs
Texts == UNION {RunTexts(Runs, k) : k \in 0..MaxRuns}

\* the runs of the texts whose graphemes have normalization forms: A + ring
\* composes to one character, U WITH GRAVE has a little-endian form only
\* when decomposed, and U+1F12A has a big-endian form only when decomposed
FormRuns ==
    {<<g, 1>> : g \in {LATIN_A, PILE_OF_POO, A_RING_DECOMPOSED, U_GRAVE,
                       BRACKETED_S}}
    \cup {<<LATIN_A, 71>>, <<BRACKETED_S, 24>>}

FormTexts == UNION {RunTexts(FormRuns, k) : k \in 0..MaxRuns}

\* the runs of the texts that lead with a byte order mark: either mark, 100
\* marks, and 68 letters that bring a marked text to the single-page limit
BomRuns ==
    {<<g, 1>> : g \in {ZWNBSP, NONCHAR_FFFE, LATIN_A, PILE_OF_POO, NUL}}
    \cup {<<ZWNBSP, 100>>, <<LATIN_A, 68>>}

BomTexts == UNION {RunTexts(BomRuns, k) : k \in 0..MaxRuns}

\* the texts around the single-page limit: 68 or 69 letters and a grapheme of
\* two code units on one side or both, followed by a few short graphemes; and
\* the short texts alone
LimitHeads ==
    {<<>>} \cup {Repeat(LATIN_A, n) \o <<g>> :
                    n \in {SINGLE_PAGE - 2, SINGLE_PAGE - 1},
                    g \in {CRLF, PILE_OF_POO}}

LimitRuns == {<<g, 1>> : g \in {LATIN_A, CRLF, PILE_OF_POO}}

LimitTexts ==
    UNION {{head \o tail : head \in LimitHeads, tail \in RunTexts(LimitRuns, k)} :
               k \in 0..MaxRuns}

\* the runs of the texts with graphemes as long as a page allows: the two
\* long graphemes, short ones, and 62 letters that fill a page before them
LongRuns ==
    {<<g, 1>> : g \in {LONGEST_GRAPHEME, TOO_LONG_GRAPHEME, LATIN_A,
                       PILE_OF_POO, ZWNBSP}}
    \cup {<<LATIN_A, PAGE - 1>>}

LongTexts == UNION {RunTexts(LongRuns, k) : k \in 0..MaxRuns}

\* the policies worth trying on a text: handle_unsupported is read only for a
\* grapheme that has an unsupported character
PoliciesFor(text) ==
    IF \E i \in 1..Len(text) : HasUnsupported(text[i])
      THEN Policies ELSE {"replace"}

\* ------------------------------------------------------------ state machine
VARIABLES
    pc,                 \* where the call is
    _graphemes,         \* list(grapheme.graphemes(text))
    max_pages, truncated_text_error_multiplier, handle_unsupported,
    c,                  \* errors_be, errors_le, graphemes_be, graphemes_le
    sp,                 \* the single pages and their losses
    states,             \* the beam
    _page_idx,          \* the iteration of the beam loop
    new_states,         \* new_states of the last iteration
    result,             \* what coerce_text returned
    exc,                \* the exception that ended the run
    gateway,            \* what sms_api_endpoint returned
    rendered,           \* what mobile_phone_render returned
    extensions          \* the runs of the page-building loops so far

vars == <<pc, _graphemes, max_pages, truncated_text_error_multiplier,
          handle_unsupported, c, sp, states, _page_idx, new_states, result,
          exc, gateway, rendered, extensions>>

inputs == <<_graphemes, max_pages, truncated_text_error_multiplier,
            handle_unsupported>>

Nothing == [exc |-> "not yet"]

InitOver(texts) ==
    /\ pc = "called"
    /\ _graphemes \in texts
    /\ max_pages \in 1..MaxPages
    /\ truncated_text_error_multiplier \in 0..MaxMultiplier
    /\ handle_unsupported \in PoliciesFor(_graphemes)
    /\ c = Nothing
    /\ sp = Nothing
    /\ states = <<>>
    /\ _page_idx = 0
    /\ new_states = <<>>
    /\ result = Nothing
    /\ exc = NoException
    /\ gateway = Nothing
    /\ rendered = Nothing
    /\ extensions = 0

Raise(e) ==
    /\ pc' = "raised"
    /\ exc' = e

\* lines 238-246: segmentation and coerce_grapheme of every grapheme; zip(*...)
\* of nothing cannot be unpacked
CoerceGraphemes ==
    /\ pc = "called"
    /\ IF _graphemes = <<>>
         THEN Raise("ValueError") /\ UNCHANGED c
         ELSE /\ c' = Coerce(_graphemes, handle_unsupported)
              /\ pc' = "coerced"
              /\ UNCHANGED exc
    /\ UNCHANGED <<inputs, sp, states, _page_idx, new_states, result, gateway,
                   rendered, extensions>>

\* lines 248-289: the single pages, the fast exits, the start of the beam
SinglePagePlan ==
    /\ pc = "coerced"
    /\ \E planned \in {SinglePages(c, truncated_text_error_multiplier)} :
           IF planned.exc # NoException
             THEN Raise(planned.exc) /\ UNCHANGED <<sp, states, result>>
           ELSE IF planned.fast = "BE"
             THEN /\ result' = Returned(<<planned.single_page_be>>,
                                   FastCandidate(planned.single_page_be, "BE", c.n))
                  /\ sp' = planned
                  /\ pc' = "returned"
                  /\ UNCHANGED <<states, exc>>
           ELSE IF planned.fast = "LE"
             THEN /\ result' = Returned(<<planned.single_page_le>>,
                                   FastCandidate(planned.single_page_le, "LE", c.n))
                  /\ sp' = planned
                  /\ pc' = "returned"
                  /\ UNCHANGED <<states, exc>>
           ELSE /\ sp' = planned
                /\ states' = InitialStates
                /\ pc' = "beam"
                /\ UNCHANGED <<result, exc>>
    /\ UNCHANGED <<inputs, c, _page_idx, new_states, gateway, rendered,
                   extensions>>

\* lines 290-379: one iteration of the beam loop
BeamIteration ==
    /\ pc = "beam"
    /\ \E new \in {NewStates(c, states)} : \E pruned \in {Prune(new.new)} :
           IF new.exc # NoException
             THEN /\ Raise(new.exc)
                  /\ extensions' = extensions + LoopsUntilRaise(c, states)
                  /\ UNCHANGED <<states, _page_idx, new_states>>
             ELSE /\ new_states' = new.new
                  /\ extensions' = extensions + 2 * Len(states)
                  /\ states' = pruned
                  /\ IF AllAtEnd(c, pruned) \/ _page_idx + 1 >= max_pages
                       THEN pc' = "select" /\ UNCHANGED _page_idx
                       ELSE pc' = "beam" /\ _page_idx' = _page_idx + 1
                  /\ UNCHANGED exc
    /\ UNCHANGED <<inputs, c, sp, result, gateway, rendered>>

\* lines 381-405: the final selection, the padding and the return
SelectBest ==
    /\ pc = "select"
    /\ \E r \in {SelectAndAssemble(c, states, sp, truncated_text_error_multiplier)} :
           IF r.exc # NoException
             THEN Raise(r.exc) /\ UNCHANGED result
             ELSE result' = r /\ pc' = "returned" /\ UNCHANGED exc
    /\ UNCHANGED <<inputs, c, sp, states, _page_idx, new_states, gateway,
                   rendered, extensions>>

\* sms_api_endpoint(quote(coerce_text(text)))
Gateway ==
    /\ pc = "returned"
    /\ \E q \in {quote(result.out)} :
           IF q.exc # NoException
             THEN Raise(q.exc) /\ UNCHANGED gateway
             ELSE \E sent \in {sms_api_endpoint(q.query)} :
                    IF sent.exc # NoException
                      THEN Raise(sent.exc) /\ UNCHANGED gateway
                      ELSE gateway' = sent /\ pc' = "sent" /\ UNCHANGED exc
    /\ UNCHANGED <<inputs, c, sp, states, _page_idx, new_states, result,
                   rendered, extensions>>

\* mobile_phone_render(*pages)
Phone ==
    /\ pc = "sent"
    /\ \E shown \in {mobile_phone_render(gateway.encoded_pages)} :
           IF shown.exc # NoException
             THEN Raise(shown.exc) /\ UNCHANGED rendered
             ELSE rendered' = shown /\ pc' = "rendered" /\ UNCHANGED exc
    /\ UNCHANGED <<inputs, c, sp, states, _page_idx, new_states, result,
                   gateway, extensions>>

Next ==
    \/ CoerceGraphemes
    \/ SinglePagePlan
    \/ BeamIteration
    \/ SelectBest
    \/ Gateway
    \/ Phone

Init == InitOver(Texts)

Spec == Init /\ [][Next]_vars

\* the same calls on the texts with normalization forms
InitForms == InitOver(FormTexts)

SpecForms == InitForms /\ [][Next]_vars

\* the same calls on the texts around the single-page limit
InitLimit == InitOver(LimitTexts)

SpecLimit == InitLimit /\ [][Next]_vars

\* the same calls on the texts with graphemes as long as a page allows
InitLong == InitOver(LongTexts)

SpecLong == InitLong /\ [][Next]_vars

\* the same calls on the texts that lead with a byte order mark
InitBom == InitOver(BomTexts)

SpecBom == InitBom /\ [][Next]_vars

\* ------------------------------------------------------------- properties
\* the text that was passed to coerce_text
Text == Join(_graphemes)

\* coerce_text has returned (the gateway and the phone may have run since)
HasReturned == result.exc = NoException

\* the pages of the layout that was returned and the loops that built them
Layout == result.out_pages

\* a side of the grapheme can be encoded
EncodableSide(chars) ==
    \E endianness \in {">", "<"} :
        \E decoded \in {decode_ucs2(endianness, AllGraphemeBytesBE(chars))} :
            decoded # None /\ ~TooLong(decoded)

\* the scope of the round trip: a non-empty text without unsupported
\* characters whose graphemes each have an encodable side
InScope ==
    /\ _graphemes # <<>>
    /\ \A i \in 1..Len(_graphemes) :
           ~HasUnsupported(_graphemes[i]) /\ EncodableSide(_graphemes[i])

\* the selected candidate covers every grapheme: a layout of the beam that
\* reached the end of the text, or a single page of at most 70 code units
NothingTruncated ==
    /\ result.best.idx = Len(_graphemes)
    /\ result.best.from = "beam" \/ Len(result.out) <= SINGLE_PAGE

\* C1: round trip. For a text in scope of which nothing is truncated, the
\* gateway accepts what coerce_text returned and the phone shows the text.
C1_RoundTrip ==
    (InScope /\ HasReturned /\ NothingTruncated /\ pc \in {"rendered", "raised"})
        => (pc = "rendered" /\ rendered.text = Text)

\* C2: coerce_text never raises: a run ends with an exception only after
\* coerce_text has returned (in the gateway or the phone).
C2_NeverRaises == pc = "raised" => HasReturned

\* C3: page-count bound. The gateway sends what coerce_text returned as at
\* most max_pages pages.
C3_PageCountBound ==
    pc \in {"sent", "rendered"} => Len(gateway.pages) <= max_pages

\* C4: page-length invariant. Every page of the returned layout but the last
\* is exactly 63 code units; the last is at most 70 code units when it is the
\* only page and at most 63 otherwise.
C4_PageLength ==
    HasReturned =>
        /\ \A k \in 1..(Len(Layout) - 1) : Len(Layout[k]) = PAGE
        /\ Len(Layout[Len(Layout)])
               <= (IF Len(Layout) = 1 THEN SINGLE_PAGE ELSE PAGE)

\* a page and the loop that built it: a little-endian page starts with
\* U+FFFE, a big-endian page does not, and a big-endian page whose first
\* grapheme starts with a BOM is U+FEFF followed by that grapheme
PageBOM(page, built) ==
    LET first == c.graphemes_be[built.start_idx + 1]
    IN  /\ built.kind = "LE" => page[1] = BOM_LE
        /\ built.kind = "BE" => page[1] # BOM_LE
        /\ (built.kind = "BE" /\ first # <<>> /\ first[1] \in {BOM_LE, BOM_BE})
               => /\ page[1] = BOM_BE
                  /\ SubSeq(page, 2, Len(first) + 1) = first

LayoutBOM(pages, trail) ==
    /\ Len(trail) = Len(pages)
    /\ \A k \in 1..Len(pages) : PageBOM(pages[k], trail[k])

\* C5: page-BOM invariant. In every layout the beam builds and in the layout
\* that is returned, every little-endian page starts with U+FFFE, no
\* big-endian page starts with U+FFFE, and a big-endian page whose first
\* grapheme begins with U+FFFE or U+FEFF has one U+FEFF before it.
C5_PageBOM ==
    /\ pc \in {"beam", "select"} =>
           \A k \in 1..Len(new_states) :
               LayoutBOM(new_states[k].pages, new_states[k].trail)
    /\ HasReturned => LayoutBOM(Layout, result.best.trail)

\* C5 happens: a layout of two pages is returned whose first page is a
\* big-endian page that starts with U+FEFF and the text's own BOM, after the
\* beam has built little-endian pages for the same text
C5_Witness ==
    /\ pc = "returned"
    /\ Len(Layout) = 2
    /\ result.best.trail[1].kind = "BE"
    /\ _graphemes[1] \in {ZWNBSP, NONCHAR_FFFE}
    /\ Layout[1][1] = BOM_BE
    /\ Layout[1][2] = _graphemes[1][1]
    /\ \E k \in 1..Len(new_states) :
           \E j \in 1..Len(new_states[k].trail) :
               new_states[k].trail[j].kind = "LE"

\* C6: gateway page alignment. When the returned layout has two or more
\* pages, the gateway splits the string into exactly those pages, under the
\* page sizes of the code and under the page size of 63 throughout.
C6_GatewayAlignment ==
    (pc \in {"sent", "rendered"} /\ Len(Layout) >= 2)
        => /\ gateway.pages = Layout
           /\ GatewayPages63(ReplacedText(result.out)) = Layout

\* C7: gateway-transparent output. Every code unit of the returned string is
\* at most U+FFFF and no surrogate, and the gateway sends the string as it is.
C7_GatewayTransparent ==
    /\ HasReturned =>
           \A i \in 1..Len(result.out) :
               result.out[i] <= MAX_UCS2 /\ ~IsSurrogate(result.out[i])
    /\ pc \in {"sent", "rendered"} => Join(gateway.pages) = result.out

\* C7 happens: the gateway has sent the output for a text with a codepoint
\* above U+FFFF and a character whose byte-swapped form is a surrogate
C7_Witness ==
    /\ pc = "sent"
    /\ InSeq(PILE_OF_POO, _graphemes)
    /\ InSeq(O_STROKE, _graphemes)

\* C8: under every policy but pass, what coerce_text returns is not empty
\* and has no U+0000, and no assertion of the gateway fails on it.
C8_NoEmptyNoNul ==
    (handle_unsupported # "pass" /\ HasReturned)
        => /\ result.out # <<>>
           /\ \A i \in 1..Len(result.out) : result.out[i] # 0
           /\ ~(pc = "raised" /\ exc = "AssertionError")

\* C8 happens: the gateway has sent the output for a text with U+0000 under
\* the policies ignore, replace or error
C8_Witness ==
    /\ pc = "sent"
    /\ handle_unsupported = "ignore"
    /\ InSeq(NUL, _graphemes)

\* the charset table: digits, letters, the punctuation but the backtick,
\* space, LF, CR and FF
SMS_CHARSET == ((32..126) \ {96}) \cup {10, 13, 12}

\* the text is composed solely of the printable ASCII subset
PrintableAscii(text) == \A i \in 1..Len(text) : text[i] \in SMS_CHARSET

\* C9 as stated: for every text of printable ASCII, of any length, what
\* coerce_text returns is the text.
C9_AsciiFixedPoint ==
    (HasReturned /\ PrintableAscii(Text)) => result.out = Text

\* every grapheme is one code unit: the text has no CR LF pair
NoCRLF == \A i \in 1..Len(_graphemes) : Len(_graphemes[i]) = 1

\* C9 amended: a text of printable ASCII is returned as it is when it has at
\* most 70 code units, or has no CR LF pair and at most 63 code units for
\* each of the max_pages pages.
C9_AsciiFixedPointWithinCapacity ==
    (/\ HasReturned
     /\ PrintableAscii(Text)
     /\ \/ Len(Text) <= SINGLE_PAGE
        \/ NoCRLF /\ Len(Text) <= PAGE * max_pages)
        => result.out = Text

\* C9 happens: a text of printable ASCII too long for a single page is
\* returned as it is, as the pages of the beam
C9_Witness ==
    /\ pc = "returned"
    /\ PrintableAscii(Text)
    /\ Len(Text) > SINGLE_PAGE
    /\ Len(Text) <= PAGE * max_pages
    /\ result.best.from = "beam"
    /\ result.out = Text

\* the call with one more page returns a loss that is not greater
NextPageNoWorse ==
    \A more \in {coerce_text(_graphemes, max_pages + 1,
                             truncated_text_error_multiplier,
                             handle_unsupported)} :
        more.exc = NoException => more.min_error <= result.min_error

\* C10 as stated: for every text, policy and multiplier, the loss selected
\* with max_pages + 1 is at most the loss selected with max_pages.
C10_MonotoneError == pc = "returned" => NextPageNoWorse

\* C10 amended: the loss selected with max_pages + 1 is at most the loss
\* selected with max_pages when the policy is not error or the multiplier
\* is at least 1.
C10_MonotoneErrorCostedTruncation ==
    (/\ pc = "returned"
     /\ handle_unsupported # "error" \/ truncated_text_error_multiplier >= 1)
        => NextPageNoWorse

\* C10 happens: a call that truncates returns a loss, and the call with one
\* more page returns a smaller one
C10_Witness ==
    /\ pc = "returned"
    /\ result.min_error > 0
    /\ \E more \in {coerce_text(_graphemes, max_pages + 1,
                                truncated_text_error_multiplier,
                                handle_unsupported)} :
           more.exc = NoException /\ more.min_error < result.min_error

\* coerce_grapheme has substituted the replacement pair for the grapheme:
\* an unsupported character under replace, or no encodable side
Substituted(chars) ==
    IF HasUnsupported(chars) /\ handle_unsupported # "pass"
      THEN handle_unsupported = "replace"
      ELSE ~EncodableSide(chars)

\* the page of state s that covers grapheme i (1-based)
PageOf(s, i) ==
    CHOOSE k \in 1..Len(s.trail) :
        /\ s.trail[k].start_idx < i
        /\ k = Len(s.trail) \/ s.trail[k + 1].start_idx >= i

\* grapheme i is flagged as an error on the side kind
FlaggedOn(kind, i) == IF kind = "BE" THEN c.errors_be[i] ELSE c.errors_le[i]

\* the graphemes state s emits that are flagged on the side of their page,
\* and those it emits as a replacement character, flagged or substituted
FlaggedIn(s) ==
    {i \in 1..s.idx : FlaggedOn(s.trail[PageOf(s, i)].kind, i)}

ReplacedIn(s) ==
    {i \in 1..s.idx : \/ FlaggedOn(s.trail[PageOf(s, i)].kind, i)
                      \/ Substituted(_graphemes[i])}

\* the single pages are scored and both fit a single page
SinglePagesFit ==
    /\ sp # Nothing
    /\ Len(sp.single_page_be) <= SINGLE_PAGE
    /\ Len(sp.single_page_le) <= SINGLE_PAGE

SidesOf(i) == coerce_grapheme(_graphemes[i], handle_unsupported)

\* C12 as stated: under replace, ignore and pass both sides that
\* coerce_grapheme returns are strings, never None.
C12_NoneOnlyUnderError ==
    (pc = "coerced" /\ handle_unsupported # "error")
        => \A i \in 1..Len(_graphemes) :
               SidesOf(i)[1] # None /\ SidesOf(i)[2] # None

\* C12 amended: coerce_grapheme returns None on both sides exactly for a
\* grapheme with an unsupported character under policy error; under every
\* policy it returns None on the one side that cannot be encoded when the
\* other side can.
C12_BothNoneOnlyUnderError ==
    pc = "coerced" =>
        \A i \in 1..Len(_graphemes) :
            \A sides \in {SidesOf(i)} :
                /\ (sides[1] = None /\ sides[2] = None)
                       <=> (/\ handle_unsupported = "error"
                            /\ HasUnsupported(_graphemes[i]))
                /\ c.errors_be[i] = (sides[1] = None)
                /\ c.errors_le[i] = (sides[2] = None)

\* C12 happens: under a policy other than error, coerce_grapheme has
\* returned None on one side of a grapheme of a text that also has an
\* unsupported character and a grapheme that no side encodes
C12_Witness ==
    /\ pc = "coerced"
    /\ handle_unsupported \in {"replace", "ignore", "pass"}
    /\ \E i \in 1..Len(_graphemes) :
           SidesOf(i)[1] # None /\ SidesOf(i)[2] = None
    /\ \E i \in 1..Len(_graphemes) :
           HasUnsupported(_graphemes[i]) \/ ~EncodableSide(_graphemes[i])

\* the graphemes (1-based) that page k of the returned layout covers
Covered(k) ==
    LET trail == result.best.trail
    IN  (trail[k].start_idx + 1) ..
            (IF k < Len(trail) THEN trail[k + 1].start_idx ELSE result.best.idx)

\* every little-endian page of the returned layout, fast exit or beam,
\* covers a grapheme whose big-endian side is None
LittleEndianPagesNeeded ==
    \A k \in 1..Len(Layout) :
        result.best.trail[k].kind = "LE"
            => \E i \in Covered(k) : c.errors_be[i]

NoLongerBigEndian ==
    \A i \in 1..c.n : Len(c.graphemes_be[i]) <= Len(c.graphemes_le[i])

CoerceTextRaised == pc = "raised" /\ result = Nothing

CoerceTextDone == HasReturned \/ CoerceTextRaised

\* the big-endian concatenation of the forms, with the U+FEFF prefix when it
\* starts with either BOM, and U+FFFE followed by the little-endian one
PrefixedBE(forms) ==
    LET joined == Join(forms.graphemes_be)
    IN  IF joined # <<>> /\ joined[1] \in {BOM_BE, BOM_LE}
          THEN <<BOM_BE>> \o joined ELSE joined

PrefixedLE(forms) == <<BOM_LE>> \o Join(forms.graphemes_le)

AllHaveBE(forms) == \A i \in 1..forms.n : ~forms.errors_be[i]

AllHaveLE(forms) == \A i \in 1..forms.n : ~forms.errors_le[i]

\* coerce_text has returned exactly this string, as one page
ReturnedSinglePage(page) ==
    HasReturned /\ result.out = page /\ Layout = <<page>>

\* the single page that the fast path promises for the forms, if any
FastPathHolds(forms) ==
    IF AllHaveBE(forms) /\ Len(PrefixedBE(forms)) <= SINGLE_PAGE
      THEN ReturnedSinglePage(PrefixedBE(forms))
    ELSE IF AllHaveLE(forms) /\ Len(PrefixedLE(forms)) <= SINGLE_PAGE
      THEN ReturnedSinglePage(PrefixedLE(forms))
    ELSE TRUE

\* C14: single-page fast path. If every grapheme has a big-endian form and
\* the prefixed big-endian concatenation is at most 70 code units,
\* coerce_text returns exactly that string as one page; otherwise, if every
\* grapheme has a little-endian form and U+FFFE followed by the little-endian
\* concatenation is at most 70 code units, it returns exactly that string.
C14_FastPath ==
    CoerceTextDone
        => \A forms \in {Coerce(_graphemes, handle_unsupported)} :
               FastPathHolds(forms)

\* the same for the calls that return: the only calls of the fast path that
\* do not return its page are the ones that raise
FastPathWhenReturned ==
    HasReturned
        => \A forms \in {Coerce(_graphemes, handle_unsupported)} :
               FastPathHolds(forms)

\* the text starts with U+FEFF or U+FFFE
BOMLeading == _graphemes # <<>> /\ Text[1] \in {BOM_BE, BOM_LE}

\* C15: BOM-leading input. For a text that starts with U+FEFF or U+FFFE,
\* whose graphemes all have a big-endian form and whose big-endian
\* concatenation is at most 69 code units, coerce_text returns U+FEFF
\* followed by that concatenation; for 100 repetitions of U+FEFF (at least
\* two pages allowed, truncation costed) it returns 102 code units, all
\* U+FEFF.
C15_BOMLeading ==
    CoerceTextDone
        => \A forms \in {Coerce(_graphemes, handle_unsupported)} :
               /\ (/\ BOMLeading
                   /\ AllHaveBE(forms)
                   /\ Len(Join(forms.graphemes_be)) <= SINGLE_PAGE - 1)
                      => ReturnedSinglePage(<<BOM_BE>> \o Join(forms.graphemes_be))
               /\ (/\ _graphemes = Repeat(ZWNBSP, 100)
                   /\ max_pages >= 2
                   /\ truncated_text_error_multiplier >= 1)
                      => /\ HasReturned
                         /\ Len(result.out) = 102
                         /\ \A i \in 1..Len(result.out) : result.out[i] = BOM_BE

\* C15 happens: coerce_text has returned 102 code units for 100 repetitions
\* of U+FEFF
C15_Witness ==
    /\ pc = "returned"
    /\ _graphemes = Repeat(ZWNBSP, 100)
    /\ max_pages >= 2
    /\ truncated_text_error_multiplier >= 1
    /\ Len(result.out) = 102

\* C15 happens on the fast path too: a marked text of 69 code units has been
\* returned as one page of 70
C15_WitnessSinglePage ==
    /\ pc = "returned"
    /\ BOMLeading
    /\ Len(result.out) = SINGLE_PAGE
    /\ Len(Layout) = 1

\* what the phone shows for one page of code units
PhoneShows(page) == mobile_phone_render(<<StructPackBE(page)>>)

\* the BOM of the kind of page k of the returned layout
OwnBOM(k) == IF result.best.trail[k].kind = "LE" THEN BOM_LE ELSE BOM_BE

\* C16: padding is invisible. Every non-final page of the returned layout
\* is the unpadded page right-padded to 63 code units with its own BOM, and
\* the phone decodes the padded page to the same text as the unpadded one.
C16_PaddingInvisible ==
    HasReturned =>
        \A k \in 1..(Len(Layout) - 1) :
            /\ Layout[k] = right_pad_page(result.best.pages[k], OwnBOM(k))
            /\ Len(Layout[k]) = PAGE
            /\ PhoneShows(Layout[k]) = PhoneShows(result.best.pages[k])

\* C16 happens: a returned layout has a little-endian non-final page that
\* was shorter than 63 code units before it was padded
C16_Witness ==
    /\ pc = "returned"
    /\ Len(Layout) = 2
    /\ result.best.trail[1].kind = "LE"
    /\ Len(result.best.pages[1]) < PAGE
    /\ PhoneShows(Layout[1]).exc = NoException

\* an iteration of the beam loop has completed: new_states holds the
\* extensions it generated, in order, and states the beam it kept
IterationDone == pc = "select" \/ (pc = "beam" /\ _page_idx > 0)

\* the extensions generated with error count n
Generated(n) == {k \in 1..Len(new_states) : new_states[k].n_errors = n}

\* the earliest of the extensions with error count n that have the largest
\* cursor
Furthest(n) ==
    CHOOSE k \in Generated(n) :
        \A j \in Generated(n) :
            /\ new_states[j].idx <= new_states[k].idx
            /\ new_states[j].idx = new_states[k].idx => k <= j

\* C17: beam pruning. After each iteration the beam holds exactly one
\* state for each error count that occurs among the extensions generated in
\* the iteration: the one with the largest cursor, the earliest generated
\* on a tie.
C17_BeamPruning ==
    IterationDone =>
        /\ {states[j].n_errors : j \in 1..Len(states)}
               = {new_states[k].n_errors : k \in 1..Len(new_states)}
        /\ \A i, j \in 1..Len(states) :
               states[i].n_errors = states[j].n_errors => i = j
        /\ \A j \in 1..Len(states) :
               states[j] = new_states[Furthest(states[j].n_errors)]

\* C17 happens: an iteration generated two different extensions with the
\* same error count and the same, largest, cursor, and extensions with
\* another error count
C17_Witness ==
    /\ IterationDone
    /\ Len(states) >= 2
    /\ \E j, k \in 1..Len(new_states) :
           /\ j = Furthest(new_states[k].n_errors)
           /\ j < k
           /\ new_states[j].idx = new_states[k].idx
           /\ new_states[j].pages # new_states[k].pages

\* the candidates of the selection: the final beam states and the two
\* single pages
FinalCandidates ==
    Candidates(c, states, sp, truncated_text_error_multiplier)

LastPageLength(x) == Len(x.pages[Len(x.pages)])

\* candidate a is strictly before candidate b in the order of (loss, number
\* of pages, length of the last page)
StrictlyBetter(a, b) ==
    \/ a.loss < b.loss
    \/ a.loss = b.loss /\ Len(a.pages) < Len(b.pages)
    \/ /\ a.loss = b.loss
       /\ Len(a.pages) = Len(b.pages)
       /\ LastPageLength(a) < LastPageLength(b)

RECURSIVE SumRange(_, _, _)
SumRange(numbers, lo, hi) ==
    IF lo > hi THEN 0
    ELSE IF lo = hi THEN numbers[lo]
    ELSE LET mid == (lo + hi) \div 2
         IN  SumRange(numbers, lo, mid) + SumRange(numbers, mid + 1, hi)

SumTo(numbers, n) == SumRange(numbers, 1, n)

\* the loss of a single page when the first fragment that brings the
\* accumulated length above 70 and every fragment after it are charged their
\* length times the multiplier, and the fragments before it their error flag
TruncatedFromFirstOverflow(errors, fragments, start, multiplier) ==
    LET n == Len(fragments)
        lengths == [i \in 1..n |-> Len(fragments[i])]
        over == {i \in 1..n : start + SumTo(lengths, i) > SINGLE_PAGE}
        charge == [i \in 1..n |->
                      IF i \in over THEN lengths[i] * multiplier
                      ELSE IF errors[i] THEN 1 ELSE 0]
    IN  SumTo(charge, n)

\* C19: single-page truncation accounting. Once a fragment would push the
\* accumulated length above 70, that fragment and every later fragment are
\* each charged len(fragment) * multiplier; no fragment after the first
\* overflowing one is scored as fitting.
C19_TruncationAccounting ==
    sp # Nothing =>
        /\ sp.single_page_error_be
               = TruncatedFromFirstOverflow(c.errors_be, c.graphemes_be,
                                            StartLengthBE(sp.single_page_be),
                                            truncated_text_error_multiplier)
        /\ sp.single_page_error_le
               = TruncatedFromFirstOverflow(c.errors_le, c.graphemes_le, 1,
                                            truncated_text_error_multiplier)

\* the code units of the forms of the graphemes after the first idx ones
LeftOutLength(forms, idx) ==
    SumRange([i \in 1..Len(forms) |-> Len(forms[i])], idx + 1, Len(forms))

\* C20: uniform truncation cost. Every grapheme that a candidate leaves out
\* is charged len(grapheme) * multiplier in the candidate's loss, for beam
\* states as for single pages (lines 263-265): the loss of a final beam state
\* is its error count plus the multiplier times the code units of the
\* graphemes after its cursor, on one side or the other.
C20_UniformTruncationCost ==
    pc = "select" =>
        \A cands \in {FinalCandidates} :
            \A k \in 1..Len(states) :
                \/ cands[k].loss
                       = states[k].n_errors
                         + LeftOutLength(c.graphemes_be, states[k].idx)
                           * truncated_text_error_multiplier
                \/ cands[k].loss
                       = states[k].n_errors
                         + LeftOutLength(c.graphemes_le, states[k].idx)
                           * truncated_text_error_multiplier

\* the masquerade of a form under an endianness: its UTF-16-BE bytes read
\* as code units of that endianness
Masquerade(endianness, form) == StructUnpack(endianness, EncodeUtf16BE(form))

\* a form is acceptable under an endianness: its masquerade has no surrogate
Acceptable(endianness, form) == Utf8Encodable(Masquerade(endianness, form))

\* the policy on unsupported characters does not decide the grapheme
Encoded(chars) == ~HasUnsupported(chars) \/ handle_unsupported = "pass"

\* the graphemes of the text, each once
DistinctGraphemes == {_graphemes[i] : i \in 1..Len(_graphemes)}

\* side 1 is big-endian, side 2 little-endian
Endianness(side) == IF side = 1 THEN ">" ELSE "<"

\* C21 as stated: original form preferred. If the original form of a
\* grapheme is acceptable under an endianness, that side of coerce_grapheme
\* is the masquerade of the original form.
C21_OriginalPreferred ==
    pc = "coerced" =>
        \A chars \in DistinctGraphemes : \A side \in {1, 2} :
            (/\ Encoded(chars)
             /\ Acceptable(Endianness(side), chars)
             /\ Len(Masquerade(Endianness(side), chars)) < PAGE)
                => coerce_grapheme(chars, handle_unsupported)[side]
                       = Masquerade(Endianness(side), chars)

\* the forms of the grapheme, original first, that are acceptable under the
\* endianness and no longer than any other acceptable one; the first is
\* the preferred one
Shortest(endianness, forms) ==
    {k \in 1..Len(forms) :
        /\ Acceptable(endianness, forms[k])
        /\ \A j \in 1..Len(forms) :
               Acceptable(endianness, forms[j])
                   => Len(EncodeUtf16BE(forms[k])) <= Len(EncodeUtf16BE(forms[j]))}

Preferred(endianness, forms) ==
    IF Shortest(endianness, forms) = {} THEN None
    ELSE LET k == CHOOSE k \in Shortest(endianness, forms) :
                      \A j \in Shortest(endianness, forms) : k <= j
             encoded == Masquerade(endianness, forms[k])
         IN  IF Len(encoded) >= PAGE THEN None ELSE encoded

\* the two preferred sides, or the replacement pair when both are None
PreferredSides(forms) ==
    IF Preferred(">", forms) = None /\ Preferred("<", forms) = None
      THEN <<(<<REPLACEMENT_CHARACTER_BE>>), (<<REPLACEMENT_CHARACTER_LE>>)>>
      ELSE <<Preferred(">", forms), Preferred("<", forms)>>

\* C21 amended: shortest form preferred, the original among equally short
\* ones. Each side of coerce_grapheme is the masquerade of the shortest form
\* (original, NFC, NFKC, NFD, NFKD, in this order among equally short ones)
\* that is acceptable under the endianness, or None when there is none or it
\* is 63 code units or longer (the replacement pair when both sides are
\* None); a normalised form is used when the original is not acceptable or
\* when the normalised form is shorter.
C21_ShortestPreferred ==
    pc = "coerced" =>
        \A chars \in DistinctGraphemes :
            Encoded(chars) =>
                \A forms \in {<<chars,
                                Normalize("NFC", chars),
                                Normalize("NFKC", chars),
                                Normalize("NFD", chars),
                                Normalize("NFKD", chars)>>} :
                    \A be \in {Preferred(">", forms)} :
                    \A le \in {Preferred("<", forms)} :
                        /\ coerce_grapheme(chars, handle_unsupported)
                               = PreferredSides(forms)
                        /\ \A i \in 1..Len(_graphemes) :
                               _graphemes[i] = chars =>
                                   /\ c.errors_be[i] = (be = None)
                                   /\ c.errors_le[i] = (le = None)

\* C21 happens: coerce_grapheme has used a shorter normalised form for a
\* grapheme whose original form is acceptable, and the original form of
\* another grapheme that has a longer normalised form
C21_Witness ==
    /\ pc = "coerced"
    /\ \E i, j \in 1..Len(_graphemes) :
           /\ Acceptable(">", _graphemes[i])
           /\ c.graphemes_be[i] # Masquerade(">", _graphemes[i])
           /\ Len(c.graphemes_be[i]) < Len(Masquerade(">", _graphemes[i]))
           /\ c.graphemes_be[j] = Masquerade(">", _graphemes[j])
           /\ Normalize("NFD", _graphemes[j]) # _graphemes[j]

\* the beam loop is running or has run without raising
BeamStarted == pc = "select" \/ (pc = "beam") \/ (HasReturned /\ result.best.from # "fast")

\* the iterations of the beam loop that have completed
Iterations == IF pc = "beam" THEN _page_idx ELSE _page_idx + 1

\* the beam loop runs at most max_pages iterations and goes on only while
\* some beam state has not reached the end of the text
LoopBound ==
    BeamStarted =>
        /\ Iterations <= max_pages
        /\ (pc = "beam" /\ _page_idx > 0) => ~AllAtEnd(c, states)
        /\ pc # "beam" => (AllAtEnd(c, states) \/ Iterations = max_pages)

\* C22 as stated: work bound. One call performs at most 2 * max_pages page
\* extensions in total, and the beam loop runs at most max_pages iterations,
\* stopping earlier once every beam state has reached the end of the text.
C22_WorkBound == extensions <= 2 * max_pages /\ LoopBound

\* the graphemes flagged on a side
FlaggedGraphemes == {i \in 1..c.n : c.errors_be[i] \/ c.errors_le[i]}

\* C22 amended: the beam loop runs at most max_pages iterations, stopping
\* earlier once every beam state has reached the end of the text; the first
\* iteration performs 2 page extensions and every later one 2 for each beam
\* state, of which there are at most one more than there are flagged
\* graphemes.
C22_WorkBoundPerBeamState ==
    /\ LoopBound
    /\ BeamStarted =>
           \A flagged \in {Cardinality(FlaggedGraphemes)} :
               /\ Len(states) <= flagged + 1
               /\ Iterations >= 1 =>
                      extensions <= 2 + 2 * (Iterations - 1) * (flagged + 1)
    /\ ~BeamStarted /\ pc # "raised" => extensions = 0

\* C22 happens: the second iteration has extended two beam states, four
\* page extensions after the two of the first iteration
C22_Witness ==
    /\ pc = "select"
    /\ max_pages = 2
    /\ Iterations = 2
    /\ extensions = 6

\* page k of a state without the BOM that the encoder added at its start:
\* U+FFFE of a little-endian page, the U+FEFF prefix of a big-endian page
\* that starts with it
WithoutAddedBOM(s, k) ==
    IF s.trail[k].kind = "LE" \/ s.pages[k][1] = BOM_BE
      THEN Tail(s.pages[k]) ELSE s.pages[k]

\* the forms, on the side of page k, of the graphemes that page k covers
FormsOn(s, k) ==
    LET first == s.trail[k].start_idx + 1
        last == IF k < Len(s.pages) THEN s.trail[k + 1].start_idx ELSE s.idx
    IN  JoinRange(IF s.trail[k].kind = "LE" THEN c.graphemes_le
                                            ELSE c.graphemes_be,
                  first, last)

\* the pages of the state are the forms of graphemes 1..cursor, in order
Covers(s) ==
    /\ 0 <= s.idx /\ s.idx <= c.n
    /\ Len(s.trail) = Len(s.pages)
    /\ s.pages # <<>> => s.trail[1].start_idx = 0
    /\ \A k \in 1..Len(s.pages) :
           /\ s.pages[k] # <<>>
           /\ s.trail[k].kind = "LE" => s.pages[k][1] = BOM_LE
           /\ WithoutAddedBOM(s, k) = FormsOn(s, k)
    /\ s.pages = <<>> => s.idx = 0

\* C23: coverage. After every beam iteration, for every state the
\* iteration generated or kept, the pages without the BOMs that the encoder
\* added, concatenated, are the chosen-side forms of the graphemes before
\* the cursor, in order, none skipped, duplicated or split, and the cursor
\* is between 0 and the number of graphemes.
C23_Coverage ==
    IterationDone =>
        /\ \A k \in 1..Len(new_states) : Covers(new_states[k])
        /\ \A k \in 1..Len(states) : Covers(states[k])

\* C23 happens: an iteration has generated a state of two pages that
\* covers the whole text, a prefixed big-endian page and a little-endian one
C23_Witness ==
    /\ IterationDone
    /\ \E k \in 1..Len(new_states) :
           /\ Len(new_states[k].pages) = 2
           /\ new_states[k].idx = c.n
           /\ new_states[k].trail[1].kind = "BE"
           /\ new_states[k].pages[1][1] = BOM_BE
           /\ new_states[k].trail[2].kind = "LE"

\* every page of the state is non-empty and at most 63 code units
PagesWithinBounds(s) ==
    \A k \in 1..Len(s.pages) : Len(s.pages[k]) >= 1 /\ Len(s.pages[k]) <= PAGE

\* C24: internal checks never fire. For a non-empty text under the default
\* policy, every page stored in a beam state is non-empty and at most 63
\* code units, every beam state and the selected candidate have at least
\* one page, and coerce_text raises nothing: not the assertion of
\* right_pad_page, not RuntimeError('empty best_page').
C24_InternalChecksNeverFire ==
    (_graphemes # <<>> /\ handle_unsupported = "replace") =>
        /\ IterationDone =>
               /\ \A k \in 1..Len(new_states) :
                      new_states[k].pages # <<>> /\ PagesWithinBounds(new_states[k])
               /\ \A k \in 1..Len(states) :
                      states[k].pages # <<>> /\ PagesWithinBounds(states[k])
               /\ states # <<>>
        /\ ~CoerceTextRaised
        /\ HasReturned => result.best.pages # <<>>

\* C24 happens: coerce_text has returned two pages for a text with a
\* grapheme of 62 code units, the first page padded from 1 + 62 code units
C24_Witness ==
    /\ pc = "returned"
    /\ handle_unsupported = "replace"
    /\ \E i \in 1..Len(_graphemes) : _graphemes[i] = LONGEST_GRAPHEME
    /\ Len(result.best.pages) = 2
    /\ Len(result.best.pages[1]) = PAGE

====
